---- MODULE Spec2Model ----
(***************************************************************************)
(* A model of x_twitter_media_downloader.py: the URL parser, the metadata  *)
(* endpoint chain, the variant extraction and selection, the output path   *)
(* resolution and the streaming download, as one run of main().            *)
(*                                                                         *)
(* The two earlier downloaders, twitter_media_downloader.py and             *)
(* twitter_scraper_downloader.py, are modelled as runs of download_from_url *)
(* on the same variables.                                                  *)
(*                                                                         *)
(* Python strings are sequences of tokens.  A token is an indivisible      *)
(* piece of text ("/", "?", "status", ".mp4", a digit ...); the alphabet   *)
(* is chosen so that no token is a concatenation of others, hence two      *)
(* strings are equal exactly when their token sequences are equal.         *)
(***************************************************************************)
EXTENDS Integers, Sequences, FiniteSets, TLC

VARIABLES
    url,            \* argv: the positional tweet URL (a string)
    output,         \* argv: -o, None or a path
    download_all,   \* argv: --all
    include_m3u8,   \* argv: --include-m3u8
    force,          \* argv: --force
    downloader,     \* the program or class whose entry point runs
    pc,             \* position of the run
    rc,             \* what main() ended with: None, 0, 1, 2 or "uncaught"
    err,            \* the message written to stderr / carried by the exception
    tweet_id,       \* plan.tweet_id
    tpl,            \* index of the URL template the fetch loop is at (1-based)
    requests,       \* every HTTP request issued so far, in order
    replies,        \* what each metadata request came back with, in order
    data,           \* the payload download_from_tweet_url works on
    targets,        \* the download targets
    idx,            \* index of the target being downloaded (0-based)
    outputs,        \* paths of the completed downloads
    dl,             \* the stream_download call in progress
    fs,             \* files on disk: path -> content
    dirs,           \* directories on disk
    fs0,            \* the files on disk when the run started
    dirs0,          \* the directories on disk when the run started
    variants,       \* argument of a stand-alone call (function specifications)
    ret             \* result of a stand-alone call

vars == <<url, output, download_all, include_m3u8, force, downloader, pc, rc, err, tweet_id, tpl,
          requests, replies, data, targets, idx, outputs, dl, fs, dirs, fs0, dirs0,
          variants, ret>>

args == <<url, output, download_all, include_m3u8, force, downloader>>
disk == <<fs, dirs, fs0, dirs0>>

\* Python values: None, int, str (a token sequence), list, dict
None == [t |-> "None"]
PyInt(n) == [t |-> "int", n |-> n]
Str(s) == [t |-> "str", s |-> s]

\* bool(v): None, 0, "", [] and {} are false
Truthy(v) ==
    CASE v.t = "None" -> FALSE
      [] v.t = "int"  -> v.n # 0
      [] v.t = "str"  -> Len(v.s) > 0
      [] v.t = "list" -> Len(v.items) > 0
      [] v.t = "dict" -> Len(v.keys) > 0
      [] OTHER        -> TRUE

(***************************************************************************)
(* Strings                                                                 *)
(***************************************************************************)
Digit == {"0", "1", "2", "3", "4", "5", "6", "7", "8", "9"}

\* str.isdigit(): non-empty and every character a digit
IsDigit(s) == Len(s) > 0 /\ \A i \in 1..Len(s) : s[i] \in Digit

DigitTok == <<"0", "1", "2", "3", "4", "5", "6", "7", "8", "9">>
DigitValue(c) == (CHOOSE i \in 1..Len(DigitTok) : DigitTok[i] = c) - 1

\* int(s) for a string of digits
RECURSIVE DecimalValue(_)
DecimalValue(s) ==
    IF Len(s) = 0 THEN 0
    ELSE DecimalValue(SubSeq(s, 1, Len(s) - 1)) * 10 + DigitValue(s[Len(s)])

\* str(n) for n >= 0
RECURSIVE Decimal(_)
Decimal(n) ==
    IF n < 10 THEN <<DigitTok[n + 1]>>
    ELSE Decimal(n \div 10) \o <<DigitTok[(n % 10) + 1]>>

\* str.lower(), token by token
LowerTok(c) == IF c = "Status" THEN "status" ELSE c
Lower(s) == [i \in 1..Len(s) |-> LowerTok(s[i])]

\* index of the first character of s that is in cs, 0 when there is none
IndexOfAny(s, cs) ==
    IF \E i \in 1..Len(s) : s[i] \in cs
    THEN CHOOSE i \in 1..Len(s) : s[i] \in cs /\ \A j \in 1..(i-1) : s[j] \notin cs
    ELSE 0

\* s.split(sep, 1)
Split1(s, sep) ==
    LET i == IndexOfAny(s, {sep})
    IN  IF i = 0 THEN <<s>> ELSE <<SubSeq(s, 1, i-1), SubSeq(s, i+1, Len(s))>>

\* s.split(sep)
RECURSIVE Split(_, _)
Split(s, sep) ==
    LET i == IndexOfAny(s, {sep})
    IN  IF i = 0 THEN <<s>>
        ELSE <<SubSeq(s, 1, i-1)>> \o Split(SubSeq(s, i+1, Len(s)), sep)

\* [p for p in parts if p]
NonEmpty(parts) == SelectSeq(parts, LAMBDA p : Len(p) > 0)

\* ''.join / sep.join
RECURSIVE Join(_, _)
Join(parts, sep) ==
    IF Len(parts) = 0 THEN <<>>
    ELSE IF Len(parts) = 1 THEN parts[1]
    ELSE parts[1] \o sep \o Join(Tail(parts), sep)

(***************************************************************************)
(* urllib.parse                                                            *)
(***************************************************************************)
\* urlparse(url): the scheme token, then the netloc up to the first of / ? #,
\* then the fragment is cut at the first #, then the query at the first ?
urlparse(u) ==
    LET hasScheme == Len(u) > 0 /\ u[1] = "https://"
        rest0 == IF hasScheme THEN Tail(u) ELSE u
        n     == IndexOfAny(rest0, {"/", "?", "#"})
        netloc == IF ~hasScheme THEN <<>>
                  ELSE IF n = 0 THEN rest0 ELSE SubSeq(rest0, 1, n-1)
        rest1 == IF ~hasScheme THEN rest0
                 ELSE IF n = 0 THEN <<>> ELSE SubSeq(rest0, n, Len(rest0))
        f     == Split1(rest1, "#")
        q     == Split1(f[1], "?")
    IN  [netloc   |-> netloc,
         path     |-> q[1],
         query    |-> IF Len(q) = 2 THEN q[2] ELSE <<>>,
         fragment |-> IF Len(f) = 2 THEN f[2] ELSE <<>>]

\* parse_qs(query) as the list of (name, value) pairs it keeps: fields are
\* separated by &, a field without = or with a blank value is dropped
parse_qs(query) ==
    LET fields == NonEmpty(Split(query, "&"))
        nv(fld) == Split1(fld, "=")
        kept   == SelectSeq(fields, LAMBDA fld : Len(nv(fld)) = 2 /\ Len(nv(fld)[2]) > 0)
    IN  [i \in 1..Len(kept) |-> nv(kept[i])]

\* q[name][0] when name is in q, None otherwise
QsFirst(q, name) ==
    LET hits == SelectSeq(q, LAMBDA p : p[1] = name)
    IN  IF Len(hits) = 0 THEN None ELSE Str(hits[1][2])

(***************************************************************************)
(* extract_tweet_id                                                        *)
(***************************************************************************)
Raise(exc, msg) == [t |-> "raise", exc |-> exc, msg |-> msg]
Return(v) == [t |-> "return", v |-> v]

IsStatus(part) == Lower(part) = <<"status">>

\* for i, part in enumerate(path_parts): status with a successor, first hit
FirstLoopId(path_parts) ==
    LET hit(i) == IsStatus(path_parts[i]) /\ i + 1 <= Len(path_parts)
    IN  IF \E i \in 1..Len(path_parts) : hit(i)
        THEN Str(path_parts[(CHOOSE i \in 1..Len(path_parts) :
                                hit(i) /\ \A j \in 1..(i-1) : ~hit(j)) + 1])
        ELSE None

\* for i in range(len(path_parts) - 1): the fallback loop
FallbackLoopId(path_parts) ==
    LET hit(i) == IsStatus(path_parts[i])
        R == 1..(Len(path_parts) - 1)
    IN  IF \E i \in R : hit(i)
        THEN Str(path_parts[(CHOOSE i \in R : hit(i) /\ \A j \in 1..(i-1) : ~hit(j)) + 1])
        ELSE None

\* re.split(r'[?#]', tweet_id)[0]
StripParams(s) ==
    LET i == IndexOfAny(s, {"?", "#"})
    IN  IF i = 0 THEN s ELSE SubSeq(s, 1, i-1)

\* extract_tweet_id without the isdigit() test on the extracted ID
extract_tweet_id_NoDigitCheck(tweet_url) ==
    LET parsed == urlparse(tweet_url)
        path_parts == NonEmpty(Split(parsed.path, "/"))
        id1 == FirstLoopId(path_parts)
        id2 == IF id1 = None THEN FallbackLoopId(path_parts) ELSE id1
        q   == parse_qs(parsed.query)
        id3 == IF ~Truthy(id2) THEN QsFirst(q, <<"id">>) ELSE id2
    IN  IF ~Truthy(id3)
        THEN Raise("ValueError", "Could not extract tweet ID from URL")
        ELSE Return(Str(StripParams(id3.s)))

extract_tweet_id(tweet_url) ==
    LET parsed == urlparse(tweet_url)
        path_parts == NonEmpty(Split(parsed.path, "/"))
        id1 == FirstLoopId(path_parts)
        id2 == IF id1 = None THEN FallbackLoopId(path_parts) ELSE id1
        q   == parse_qs(parsed.query)
        id3 == IF ~Truthy(id2) THEN QsFirst(q, <<"id">>) ELSE id2
    IN  IF ~Truthy(id3)
        THEN Raise("ValueError", "Could not extract tweet ID from URL")
        ELSE IF ~IsDigit(StripParams(id3.s))
        THEN Raise("ValueError", "Extracted tweet ID looks invalid")
        ELSE Return(Str(StripParams(id3.s)))

(***************************************************************************)
(* JSON payloads as Python values                                          *)
(***************************************************************************)
List(items) == [t |-> "list", items |-> items]
\* a dict keeps its keys in insertion order
Dict(keys, vals) == [t |-> "dict", keys |-> keys, vals |-> vals]

\* k in d
Has(d, k) == \E i \in 1..Len(d.keys) : d.keys[i] = k
\* d.get(k)
Get(d, k) == IF Has(d, k) THEN d.vals[CHOOSE i \in 1..Len(d.keys) : d.keys[i] = k]
             ELSE None
\* a or b
Or(a, b) == IF Truthy(a) THEN a ELSE b

(***************************************************************************)
(* gather_variants                                                         *)
(***************************************************************************)
\* v.get('src') or v.get('url')
SrcOf(v) == Or(Get(v, "src"), Get(v, "url"))

RECURSIVE Walk(_)
RECURSIVE WalkEach(_)
\* _walk(node): the variants appended while walking node, in order
Walk(node) ==
    IF node.t = "dict"
    THEN LET v == Get(node, "variants")
             direct == IF v.t = "list"
                       THEN SelectSeq(v.items, LAMBDA item :
                                item.t = "dict" /\ (Has(item, "src") \/ Has(item, "url")))
                       ELSE <<>>
         IN  direct \o WalkEach(node.vals)
    ELSE IF node.t = "list" THEN WalkEach(node.items)
    ELSE <<>>
WalkEach(nodes) ==
    IF Len(nodes) = 0 THEN <<>> ELSE Walk(Head(nodes)) \o WalkEach(Tail(nodes))

\* the deduplication loop: keep the first variant of each src/url
RECURSIVE Unique(_, _)
Unique(vs, seen) ==
    IF Len(vs) = 0 THEN <<>>
    ELSE LET src == SrcOf(Head(vs))
         IN  IF ~Truthy(src) \/ (\E i \in 1..Len(seen) : seen[i] = src)
             THEN Unique(Tail(vs), seen)
             ELSE <<Head(vs)>> \o Unique(Tail(vs), Append(seen, src))

gather_variants(obj) == Unique(Walk(obj), <<>>)

(***************************************************************************)
(* filter_variants                                                         *)
(***************************************************************************)
\* tokens whose text contains "mp4", "mpegurl", ".m3u8"
Mp4Tok == {"video/mp4", ".mp4"}
MpegurlTok == {"application/x-mpegurl"}
M3u8Tok == {".m3u8"}
Contains(s, toks) == \E i \in 1..Len(s) : s[i] \in toks
\* s.endswith(tok)
EndsWith(s, tok) == Len(s) > 0 /\ s[Len(s)] = tok

LowerType(c) ==
    CASE c = "application/x-mpegURL" -> "application/x-mpegurl"
      [] c = "Video/MP4" -> "video/mp4"
      [] OTHER -> c

\* (v.get('type') or v.get('content_type') or '')
TypeOf(v) == Or(Or(Get(v, "type"), Get(v, "content_type")), Str(<<>>))

\* the body of the loop for one variant: "keep", "drop", or the exception
\* raised by calling a str method on a value that is not a str
FilterOne(v, m3u8) ==
    LET src == SrcOf(v)
        ty  == TypeOf(v)
    IN  IF ~Truthy(src) THEN "drop"
        ELSE IF ty.t # "str" THEN "AttributeError"
        ELSE LET vtype == [i \in 1..Len(ty.s) |-> LowerType(ty.s[i])]
             IN  IF Contains(vtype, Mp4Tok) \/ (m3u8 /\ Contains(vtype, MpegurlTok))
                 THEN "keep"
                 ELSE IF src.t # "str" THEN "AttributeError"
                 ELSE IF EndsWith(src.s, ".mp4") THEN "keep"
                 ELSE IF m3u8 /\ (Contains(src.s, M3u8Tok) \/ Contains(src.s, MpegurlTok))
                 THEN "keep"
                 ELSE "drop"

\* filter_variants(variants, include_m3u8): the exception of the first variant
\* that raises, otherwise the kept variants in order
filter_variants(vs, m3u8) ==
    IF \E i \in 1..Len(vs) : FilterOne(vs[i], m3u8) = "AttributeError"
    THEN Raise("AttributeError", "object has no attribute")
    ELSE Return(SelectSeq(vs, LAMBDA v : FilterOne(v, m3u8) = "keep"))

(***************************************************************************)
(* pick_best_variant and the --all ordering                                *)
(***************************************************************************)
\* int(br), or 0 when int() raises
IntOr0(br) ==
    CASE br.t = "int" -> br.n
      [] br.t = "str" /\ IsDigit(br.s) -> DecimalValue(br.s)
      [] OTHER -> 0

\* br = v.get('bitrate') or v.get('bit_rate') or 0, then int(br)
BitrateKey(v) == IntOr0(Or(Or(Get(v, "bitrate"), Get(v, "bit_rate")), PyInt(0)))

\* the (br, v) tuples built by the loop over the variants
WithBitrate(vs) == [i \in 1..Len(vs) |-> <<BitrateKey(vs[i]), vs[i]>>]

\* an insertion that puts x before the elements of equal key: the sort is
\* ascending but no longer stable
RECURSIVE Insert_BeforeEqual(_, _)
Insert_BeforeEqual(sorted, x) ==
    IF Len(sorted) = 0 THEN <<x>>
    ELSE IF Head(sorted)[1] < x[1]
         THEN <<Head(sorted)>> \o Insert_BeforeEqual(Tail(sorted), x)
         ELSE <<x>> \o sorted

\* where x lands in an ascending list: after every element whose key is not
\* greater, which is what makes the sort stable
RECURSIVE Insert(_, _)
Insert(sorted, x) ==
    IF Len(sorted) = 0 THEN <<x>>
    ELSE IF Head(sorted)[1] <= x[1]
         THEN <<Head(sorted)>> \o Insert(Tail(sorted), x)
         ELSE <<x>> \o sorted

\* list.sort(key=lambda x: x[0]): stable, ascending
RECURSIVE SortFrom(_, _)
SortFrom(done, todo) ==
    IF Len(todo) = 0 THEN done
    ELSE SortFrom(Insert(done, Head(todo)), Tail(todo))

Sort(pairs) == SortFrom(<<>>, pairs)

\* the first variant of maximal bitrate, as max(..., key=...) would pick
pick_best_variant_FirstMaximum(vs) ==
    IF Len(vs) = 0 THEN None
    ELSE vs[CHOOSE i \in 1..Len(vs) :
                /\ \A j \in 1..Len(vs) : BitrateKey(vs[j]) <= BitrateKey(vs[i])
                /\ \A j \in 1..(i-1) : BitrateKey(vs[j]) < BitrateKey(vs[i])]

pick_best_variant(vs) ==
    IF Len(vs) = 0 THEN None
    ELSE LET sortable == Sort(WithBitrate(vs)) IN sortable[Len(sortable)][2]

\* targets = [v for _, v in with_bitrate] after the sort
AllTargets(vs) ==
    LET with_bitrate == Sort(WithBitrate(vs))
    IN  [i \in 1..Len(with_bitrate) |-> with_bitrate[i][2]]

(***************************************************************************)
(* pathlib                                                                 *)
(***************************************************************************)
\* index of the last character of s that is in cs, 0 when there is none
LastIndexOfAny(s, cs) ==
    IF \E i \in 1..Len(s) : s[i] \in cs
    THEN CHOOSE i \in 1..Len(s) : s[i] \in cs /\ \A j \in (i+1)..Len(s) : s[j] \notin cs
    ELSE 0

\* Path.name: the last component
PathName(p) == SubSeq(p, LastIndexOfAny(p, {"/"}) + 1, Len(p))

\* Path.parent: everything before the last component, "." for a bare name
PathParent(p) ==
    LET i == LastIndexOfAny(p, {"/"})
    IN  IF i = 0 THEN <<".">> ELSE SubSeq(p, 1, i - 1)

\* the tokens that start with a dot
DotTok == {".mp4", ".m3u8", ".part", ".jpg", ".d"}

\* Path.suffix: the name from its last dot on, unless the name starts with it
PathSuffix(p) ==
    LET name == PathName(p)
        i == LastIndexOfAny(name, DotTok)
    IN  IF i > 1 THEN SubSeq(name, i, Len(name)) ELSE <<>>

\* Path.with_suffix(suffix): the old suffix is cut off and the new one added
WithSuffix(p, suffix) == SubSeq(p, 1, Len(p) - Len(PathSuffix(p))) \o suffix

\* base / name
PathJoin(base, name) == base \o <<"/">> \o name

\* the path and all its ancestors below the current directory
RECURSIVE Ancestors(_)
Ancestors(p) ==
    IF LastIndexOfAny(p, {"/"}) = 0 THEN {p} ELSE {p} \cup Ancestors(PathParent(p))

(***************************************************************************)
(* resolve_output_path                                                     *)
(***************************************************************************)
\* str(v) inside an f-string
Format(v) ==
    CASE v.t = "int" -> Decimal(v.n)
      [] v.t = "str" -> v.s
      [] OTHER -> <<"None">>

\* resolve_output_path with the suffix test ahead of the directory test
resolve_output_path_SuffixFirst(base_output, id, variant, index, D) ==
    LET src == Or(Or(Get(variant, "src"), Get(variant, "url")), Str(<<>>))
        parsed == urlparse(src.s)
        clean_path == IF Len(parsed.path) > 0 THEN parsed.path ELSE src.s
        suf == PathSuffix(clean_path)
        ext == IF EndsWith(clean_path, ".m3u8") THEN <<".m3u8">>
               ELSE IF Len(suf) > 0 THEN suf ELSE <<".mp4">>
        bitrate == Or(Get(variant, "bitrate"), Get(variant, "bit_rate"))
        quality_tag == IF Truthy(bitrate) THEN <<"_">> \o Format(bitrate) \o <<"kbps">>
                       ELSE IF index # 0 THEN <<"_">> \o Decimal(index)
                       ELSE <<>>
        name == id \o quality_tag \o ext
    IN  IF base_output = None THEN name
        ELSE IF Len(PathSuffix(base_output.p)) > 0 THEN base_output.p
        ELSE PathJoin(base_output.p, name)

\* D is the set of directories that exist when the function runs
resolve_output_path(base_output, id, variant, index, D) ==
    LET src == Or(Or(Get(variant, "src"), Get(variant, "url")), Str(<<>>))
        parsed == urlparse(src.s)
        clean_path == IF Len(parsed.path) > 0 THEN parsed.path ELSE src.s
        suf == PathSuffix(clean_path)
        ext == IF EndsWith(clean_path, ".m3u8") THEN <<".m3u8">>
               ELSE IF Len(suf) > 0 THEN suf ELSE <<".mp4">>
        bitrate == Or(Get(variant, "bitrate"), Get(variant, "bit_rate"))
        quality_tag == IF Truthy(bitrate) THEN <<"_">> \o Format(bitrate) \o <<"kbps">>
                       ELSE IF index # 0 THEN <<"_">> \o Decimal(index)
                       ELSE <<>>
        name == id \o quality_tag \o ext
    IN  IF base_output = None THEN name
        ELSE IF base_output.p \in D THEN PathJoin(base_output.p, name)
        ELSE IF Len(PathSuffix(base_output.p)) > 0 THEN base_output.p
        ELSE PathJoin(base_output.p, name)

(***************************************************************************)
(* The file system                                                         *)
(***************************************************************************)
\* a file is a path and a content; a content is the source it was written
\* from and the number of chunks written
File(p, c) == [path |-> p, content |-> c]
FileAt(F, p) == CHOOSE f \in F : f.path = p
IsFile(F, p) == \E f \in F : f.path = p
\* Path.exists()
Exists(F, D, p) == IsFile(F, p) \/ p \in D
\* open(p, 'wb') and every later write: the file holds c
WriteFile(F, p, c) == {f \in F : f.path # p} \cup {File(p, c)}
\* tmp.replace(dest)
Replace(F, tmp, dest) ==
    {f \in F : f.path # tmp /\ f.path # dest} \cup {File(dest, FileAt(F, tmp).content)}

(***************************************************************************)
(* Inputs of the URL parser                                                *)
(***************************************************************************)
MaxSegs == 4

Hosts == {"x.com", "twitter.com", "mobile.twitter.com"}

\* path segments: the status keyword in two spellings, a user name, the
\* i/web prefix, two all-digit IDs and an ID with a letter in it
Segs == {<<"status">>, <<"Status">>, <<"bob">>, <<"i">>, <<"web">>,
         <<"1", "7">>, <<"9">>, <<"1", "x">>}

\* what may follow the path: nothing, a slash, a query string, a fragment
UrlTails == {<<>>,
             <<"/">>,
             <<"?", "s", "=", "2", "0">>,
             <<"?", "id", "=", "4", "2">>,
             <<"#", "top">>,
             <<"?", "s", "=", "2", "0", "#", "top">>}

SegSeqs(n) == UNION {[1..m -> Segs] : m \in 0..n}

\* https://<host>/<seg>/.../<seg><tail>
MkUrl(host, segs, tail) ==
    <<"https://", host>> \o
    (IF Len(segs) = 0 THEN <<>> ELSE <<"/">> \o Join(segs, <<"/">>)) \o tail

Urls == {MkUrl(h, ss, tl) : h \in Hosts, ss \in SegSeqs(MaxSegs), tl \in UrlTails}

(***************************************************************************)
(* Stand-alone calls of the pure functions                                 *)
(***************************************************************************)
XDownloader == "x_twitter_media_downloader"

NoPlan ==
    /\ output = None /\ download_all = FALSE /\ include_m3u8 = FALSE /\ force = FALSE
    /\ downloader = XDownloader
    /\ rc = None /\ err = None /\ tweet_id = None /\ tpl = 0
    /\ requests = <<>> /\ replies = <<>> /\ data = None
    /\ targets = <<>> /\ idx = 0 /\ outputs = <<>> /\ dl = None
    /\ fs = {} /\ dirs = {} /\ fs0 = {} /\ dirs0 = {}

InitExtract ==
    /\ url \in Urls
    /\ NoPlan
    /\ variants = <<>>
    /\ pc = "call"
    /\ ret = None

\* ret = extract_tweet_id(url)
CallExtract ==
    /\ pc = "call"
    /\ ret' = extract_tweet_id(url)
    /\ pc' = "returned"
    /\ UNCHANGED <<args, rc, err, tweet_id, tpl, requests, replies, data, targets, idx,
                   outputs, dl, disk, variants>>

NextExtract == CallExtract

SpecExtract == InitExtract /\ [][NextExtract]_vars

MaxPick == 3

\* what a variant can carry as its bitrate: nothing, integers, a string of
\* digits, a string that is no number
PickBitrates == {PyInt(0), PyInt(1), PyInt(2), Str(<<"2">>), Str(<<"h", "d">>)}
PickSrc(name) == Str(<<"https://", "video.twimg.com", "/", name, ".mp4">>)

PickPool ==
    {Dict(<<"src">>, <<PickSrc(n)>>) : n \in {"a", "b"}} \cup
    {Dict(<<"src", k>>, <<PickSrc(n), br>>) :
        n \in {"a", "b"}, k \in {"bitrate", "bit_rate"}, br \in PickBitrates} \cup
    {Dict(<<"src", "bitrate", "bit_rate">>, <<PickSrc("a"), PyInt(0), PyInt(1)>>),
     Dict(<<"src", "bitrate", "bit_rate">>, <<PickSrc("b"), None, PyInt(2)>>)}

InitPick ==
    /\ variants \in UNION {[1..m -> PickPool] : m \in 0..MaxPick}
    /\ url = <<>>
    /\ NoPlan
    /\ pc = "call"
    /\ ret = None

\* ret = pick_best_variant(variants)
CallPick ==
    /\ pc = "call"
    /\ ret' = pick_best_variant(variants)
    /\ pc' = "returned"
    /\ UNCHANGED <<args, rc, err, tweet_id, tpl, requests, replies, data, targets, idx,
                   outputs, dl, disk, variants>>

NextPick == CallPick

SpecPick == InitPick /\ [][NextPick]_vars

(***************************************************************************)
(* Inputs of a run of main()                                               *)
(***************************************************************************)
MaxVariants == 2
BodyChunks == 1

\* the URLs main() is run on: one that carries an ID and the malformed ones
MainUrls == {MkUrl("x.com", <<<<"bob">>, <<"status">>, <<"1", "7">>>>, <<>>),
             MkUrl("x.com", <<<<"bob">>>>, <<>>),
             MkUrl("x.com", <<<<"bob">>, <<"status">>>>, <<>>),
             MkUrl("x.com", <<<<"bob">>, <<"status">>>>, <<"/">>),
             MkUrl("x.com", <<<<"bob">>, <<"status">>, <<"1", "x">>>>, <<>>),
             MkUrl("x.com", <<<<"status">>, <<"status">>, <<"1", "7">>>>, <<>>),
             MkUrl("twitter.com", <<<<"bob">>, <<"1", "7">>>>, <<"?", "s", "=", "2", "0">>),
             MkUrl("x.com", <<<<"status">>>>, <<"#", "top">>),
             MkUrl("x.com", <<>>, <<>>)}

OutPath(p) == [t |-> "path", p |-> p]
\* -o: absent, a file name, a directory that exists, a directory that does not
Outputs == {None, OutPath(<<"media", ".mp4">>), OutPath(<<"clips", ".d">>),
            OutPath(<<"out">>)}

MediaUrl(name, ext, tail) == <<"https://", "video.twimg.com", "/", name>> \o ext \o tail
Mp4 == Str(<<"video/mp4">>)

VHigh == Dict(<<"bitrate", "type", "src">>,
              <<PyInt(2), Mp4, Str(MediaUrl("a", <<".mp4">>, <<>>))>>)
VLow  == Dict(<<"bitrate", "type", "src">>,
              <<PyInt(1), Mp4, Str(MediaUrl("b", <<".mp4">>, <<>>))>>)
VUrl  == Dict(<<"content_type", "url">>,
              <<Mp4, Str(MediaUrl("c", <<".mp4">>, <<"?", "tag", "=", "1", "2">>))>>)
VHls  == Dict(<<"type", "src">>,
              <<Str(<<"application/x-mpegURL">>), Str(MediaUrl("d", <<".m3u8">>, <<>>))>>)
VTie  == Dict(<<"bit_rate", "src">>,
              <<PyInt(2), Str(MediaUrl("e", <<".mp4">>, <<>>))>>)
VDup  == Dict(<<"bitrate", "type", "src">>,
              <<PyInt(0), Mp4, Str(MediaUrl("a", <<".mp4">>, <<>>))>>)

VariantPool == {VHigh, VLow, VUrl, VHls, VTie}

\* lists of up to n different variants
VariantSeqs(n) ==
    {vs \in UNION {[1..m -> VariantPool] : m \in 0..n} :
        \A i, j \in 1..Len(vs) : vs[i] = vs[j] => i = j}

\* the syndication shape: { video: { variants: [...] } }
Tweet(vs) == Dict(<<"video">>, <<Dict(<<"variants">>, <<List(vs)>>)>>)
Photos == List(<<Str(<<"https://", "pbs.twimg.com", "/", "p", ".jpg">>)>>)

\* what an endpoint can answer as parseable JSON
Payloads ==
    {Tweet(vs) : vs \in VariantSeqs(MaxVariants)} \cup
    {None,
     PyInt(5),
     List(<<>>),
     List(<<Tweet(<<VLow>>)>>),
     Tweet(<<VHigh, VTie, VLow>>),
     Tweet(<<VDup, VLow, VHigh>>),
     Dict(<<"photos">>, <<Photos>>),
     Dict(<<"photos">>, <<List(<<>>)>>),
     Dict(<<"photos", "video">>, <<Photos, Dict(<<"variants">>, <<List(<<VHls>>)>>)>>),
     Dict(<<"tweet">>, <<Tweet(<<VHigh, VLow>>)>>),
     Dict(<<"tweet">>, <<Dict(<<"photos">>, <<Photos>>)>>),
     Dict(<<"tweet">>, <<None>>)}

Old == [from |-> <<"old">>, chunks |-> 1]
Cwd == <<".">>

\* every name a download can be given for the IDs of MainUrls
PriorPaths ==
    {resolve_output_path(o, id, v, i, {<<"clips", ".d">>, <<"out">>}) :
        o \in Outputs, id \in {<<"1", "7">>}, v \in VariantPool \cup {VDup},
        i \in 0..(MaxVariants - 1)}

\* the disk before the run: empty; as an earlier run left it; and, when -o
\* names a directory to create, with a file of that name in the way
Disks(o) ==
    {[files |-> {}, dirs |-> {Cwd, <<"clips", ".d">>}],
     [files |-> {File(q, Old) : q \in PriorPaths},
      dirs |-> {Cwd, <<"clips", ".d">>, <<"out">>}]} \cup
    (IF o = OutPath(<<"out">>)
     THEN {[files |-> {File(<<"out">>, Old)}, dirs |-> {Cwd, <<"clips", ".d">>}]}
     ELSE {})

Init ==
    /\ url \in MainUrls
    /\ output \in Outputs
    /\ download_all \in BOOLEAN
    /\ include_m3u8 \in BOOLEAN
    /\ force \in BOOLEAN
    /\ downloader = XDownloader
    /\ \E d \in Disks(output) : fs = d.files /\ dirs = d.dirs /\ fs0 = d.files /\ dirs0 = d.dirs
    /\ pc = "main"
    /\ rc = None /\ err = None /\ tweet_id = None /\ tpl = 0
    /\ requests = <<>> /\ replies = <<>> /\ data = None
    /\ variants = <<>> /\ targets = <<>> /\ idx = 0 /\ outputs = <<>> /\ dl = None
    /\ ret = None

(***************************************************************************)
(* main: argument parsing and ID extraction                                *)
(***************************************************************************)
Report(prefix, exc, msg) == [t |-> "stderr", prefix |-> prefix, exc |-> exc, msg |-> msg]

\* tweet_id = extract_tweet_id(args.url); except Exception: return 2
Main ==
    /\ pc = "main"
    /\ LET r == extract_tweet_id(url)
       IN  IF r.t = "raise"
           THEN /\ err' = Report("Error", r.exc, r.msg)
                /\ rc' = PyInt(2)
                /\ pc' = "exit"
                /\ UNCHANGED <<tweet_id, tpl>>
           ELSE /\ tweet_id' = r.v
                /\ tpl' = 1
                /\ pc' = "syndication"
                /\ UNCHANGED <<err, rc>>
    /\ UNCHANGED <<args, requests, replies, data, variants, targets, idx, outputs, dl,
                   disk, ret>>

(***************************************************************************)
(* The metadata endpoints                                                  *)
(***************************************************************************)
SYNDICATION_URLS == <<"syndication?id=", "syndication?id=&lang=en",
                      "syndication?dnt=false&id=&lang=en">>
THIRD_PARTY_APIS == <<"api.fxtwitter.com", "api.vxtwitter.com">>

MetadataRequest(tplName) == [to |-> tplName, tweet_id |-> tweet_id.s]
Failed == [ok |-> FALSE]
Json(v) == [ok |-> TRUE, v |-> v]

\* how http_get_json can fail: urlopen/read raised, or json.loads raised; both
\* become a DownloadError
HttpFailures == {"HTTP error fetching JSON", "Failed to parse JSON"}

\* raise DownloadError(msg) out of download_from_tweet_url; main returns 1
Exit1(msg) ==
    /\ err' = Report("Download failed", "DownloadError", msg)
    /\ rc' = PyInt(1)
    /\ pc' = "exit"

\* an exception main does not catch
Uncaught(exc) ==
    /\ err' = Report("Traceback", exc, "uncaught")
    /\ pc' = "uncaught"
    /\ UNCHANGED rc

\* download_from_tweet_url once data is bound: None raises, anything else
\* goes on to the extraction
AfterFetch(d) ==
    IF d = None
    THEN Exit1("Could not fetch tweet metadata from public endpoints.")
    ELSE pc' = "select" /\ UNCHANGED <<err, rc>>

\* try_fetch_syndication_json: http_get_json raised DownloadError, continue
SyndicationFails ==
    /\ pc = "syndication"
    /\ \E why \in HttpFailures :
        /\ requests' = Append(requests, MetadataRequest(SYNDICATION_URLS[tpl]))
        /\ replies' = Append(replies, Failed)
    /\ IF tpl < Len(SYNDICATION_URLS)
       THEN tpl' = tpl + 1 /\ UNCHANGED pc
       ELSE tpl' = 1 /\ pc' = "third_party"      \* return None; data is None
    /\ UNCHANGED <<args, rc, err, tweet_id, data, variants, targets, idx, outputs, dl,
                   disk, ret>>

\* try_fetch_syndication_json: return http_get_json(url)
SyndicationReturns ==
    /\ pc = "syndication"
    /\ \E v \in Payloads :
        /\ requests' = Append(requests, MetadataRequest(SYNDICATION_URLS[tpl]))
        /\ replies' = Append(replies, Json(v))
        /\ data' = v
        /\ IF v = None
           THEN tpl' = 1 /\ pc' = "third_party"  \* data is None: fall back
           ELSE UNCHANGED tpl /\ pc' = "select"
    /\ UNCHANGED <<args, rc, err, tweet_id, variants, targets, idx, outputs, dl, disk, ret>>

\* try_fetch_third_party_json: http_get_json raised DownloadError, continue
ThirdPartyFails ==
    /\ pc = "third_party"
    /\ \E why \in HttpFailures :
        /\ requests' = Append(requests, MetadataRequest(THIRD_PARTY_APIS[tpl]))
        /\ replies' = Append(replies, Failed)
    /\ IF tpl < Len(THIRD_PARTY_APIS)
       THEN tpl' = tpl + 1 /\ UNCHANGED <<pc, err, rc, data>>
       ELSE tpl' = tpl /\ data' = None /\ AfterFetch(None)   \* return None
    /\ UNCHANGED <<args, tweet_id, variants, targets, idx, outputs, dl, disk, ret>>

\* try_fetch_third_party_json: data['tweet'] when that is a dict, else data
Unwrap(v) ==
    IF v.t = "dict" /\ Has(v, "tweet") /\ Get(v, "tweet").t = "dict"
    THEN Get(v, "tweet")
    ELSE v

ThirdPartyReturns ==
    /\ pc = "third_party"
    /\ \E v \in Payloads :
        /\ requests' = Append(requests, MetadataRequest(THIRD_PARTY_APIS[tpl]))
        /\ replies' = Append(replies, Json(v))
        /\ data' = Unwrap(v)
        /\ AfterFetch(Unwrap(v))
    /\ UNCHANGED <<args, tweet_id, tpl, variants, targets, idx, outputs, dl, disk, ret>>

(***************************************************************************)
(* download_from_tweet_url: extraction and selection                       *)
(***************************************************************************)
NoVideoPhotos == "No video found; the tweet appears to contain only photos."
NoVariants == "No downloadable media variants found in the tweet JSON."

Select ==
    /\ pc = "select"
    /\ LET r == filter_variants(gather_variants(data), include_m3u8)
       IN  IF r.t = "raise"
           THEN Uncaught(r.exc) /\ UNCHANGED <<variants, targets>>
           ELSE IF Len(r.v) = 0
           THEN /\ UNCHANGED <<variants, targets>>
                /\ IF data.t # "dict" THEN Uncaught("AttributeError")  \* data.get
                   ELSE IF Truthy(Get(data, "photos")) THEN Exit1(NoVideoPhotos)
                   ELSE Exit1(NoVariants)
           ELSE /\ variants' = r.v
                /\ targets' = IF download_all THEN AllTargets(r.v)
                              ELSE <<pick_best_variant(r.v)>>
                /\ pc' = "loop"
                /\ UNCHANGED <<err, rc>>
    /\ idx' = 0
    /\ UNCHANGED <<args, tweet_id, tpl, requests, replies, data, outputs, dl, disk, ret>>

(***************************************************************************)
(* download_from_tweet_url: the download loop, and stream_download         *)
(***************************************************************************)
MediaRequest(src) == [get |-> src]

\* the target the loop is at, its path, its temporary file
Target == targets[idx + 1]
OutPathOf(v, i) == resolve_output_path(output, tweet_id.s, v, i, dirs)
\* stream_download writing straight to the destination
TmpOf_Destination(dest) == dest
TmpOf(dest) == WithSuffix(dest, PathSuffix(dest) \o <<".part">>)

\* out_path.parent.mkdir(parents=True, exist_ok=True)
MkdirBlocked(dest) == \E a \in Ancestors(PathParent(dest)) : IsFile(fs, a)
Mkdir(dest) == dirs \cup Ancestors(PathParent(dest))

\* the loop is over: return outputs; main prints them and returns 0
Finish ==
    /\ pc = "loop" /\ idx = Len(targets)
    /\ rc' = PyInt(0)
    /\ pc' = "exit"
    /\ UNCHANGED <<args, err, tweet_id, tpl, requests, replies, data, variants, targets,
                   idx, outputs, dl, disk, ret>>

\* mkdir raises an OSError, which nothing catches
MkdirFails ==
    /\ pc = "loop" /\ idx < Len(targets)
    /\ MkdirBlocked(OutPathOf(Target, idx))
    /\ Uncaught("FileExistsError")
    /\ UNCHANGED <<args, tweet_id, tpl, requests, replies, data, variants, targets, idx,
                   outputs, dl, disk, ret>>

\* stream_download: dest.exists() and not overwrite
DestinationExists ==
    /\ pc = "loop" /\ idx < Len(targets)
    /\ LET dest == OutPathOf(Target, idx)
       IN  /\ ~MkdirBlocked(dest)
           /\ dirs' = Mkdir(dest)
           /\ Exists(fs, Mkdir(dest), dest) /\ ~force
    /\ Exit1("Destination file exists")
    /\ UNCHANGED <<args, tweet_id, tpl, requests, replies, data, variants, targets, idx,
                   outputs, dl, fs, fs0, dirs0, ret>>

\* stream_download without the dest.exists() test
MayRequest_IgnoresExisting(dest) == ~MkdirBlocked(dest)

\* the guard of the request: the directory is there and the destination is
\* free or may be overwritten
MayRequest(dest) ==
    /\ ~MkdirBlocked(dest)
    /\ ~Exists(fs, Mkdir(dest), dest) \/ force

\* stream_download: urlopen raises
UrlopenFails ==
    /\ pc = "loop" /\ idx < Len(targets)
    /\ LET dest == OutPathOf(Target, idx)
       IN  /\ MayRequest(dest)
           /\ dirs' = Mkdir(dest)
    /\ requests' = Append(requests, MediaRequest(SrcOf(Target).s))
    /\ Exit1("Error downloading media")
    /\ UNCHANGED <<args, tweet_id, tpl, replies, data, variants, targets, idx, outputs, dl,
                   fs, fs0, dirs0, ret>>

\* stream_download: urlopen answers and the temporary file is opened
Urlopen ==
    /\ pc = "loop" /\ idx < Len(targets)
    /\ LET dest == OutPathOf(Target, idx)
           src == SrcOf(Target).s
       IN  /\ MayRequest(dest)
           /\ dirs' = Mkdir(dest)
           /\ requests' = Append(requests, MediaRequest(src))
           /\ dl' = [url |-> src, dest |-> dest, tmp |-> TmpOf(dest), downloaded |-> 0]
           /\ fs' = WriteFile(fs, TmpOf(dest), [from |-> src, chunks |-> 0])
    /\ pc' = "read"
    /\ UNCHANGED <<args, rc, err, tweet_id, tpl, replies, data, variants, targets, idx,
                   outputs, fs0, dirs0, ret>>

\* buf = resp.read(chunk); f.write(buf)
ReadChunk ==
    /\ pc = "read" /\ dl.downloaded < BodyChunks
    /\ dl' = [dl EXCEPT !.downloaded = @ + 1]
    /\ fs' = WriteFile(fs, dl.tmp, [from |-> dl.url, chunks |-> dl.downloaded + 1])
    /\ UNCHANGED <<args, pc, rc, err, tweet_id, tpl, requests, replies, data, variants,
                   targets, idx, outputs, dirs, fs0, dirs0, ret>>

\* resp.read raises while the body is being transferred
ReadFails ==
    /\ pc = "read" /\ dl.downloaded < BodyChunks
    /\ Exit1("Error downloading media")
    /\ UNCHANGED <<args, tweet_id, tpl, requests, replies, data, variants, targets, idx,
                   outputs, dl, disk, ret>>

\* not buf: the file is closed, tmp.replace(dest), the loop goes on
ReadEnd ==
    /\ pc = "read" /\ dl.downloaded = BodyChunks
    /\ fs' = Replace(fs, dl.tmp, dl.dest)
    /\ outputs' = Append(outputs, dl.dest)
    /\ idx' = idx + 1
    /\ dl' = None
    /\ pc' = "loop"
    /\ UNCHANGED <<args, rc, err, tweet_id, tpl, requests, replies, data, variants,
                   targets, dirs, fs0, dirs0, ret>>

Next ==
    \/ Main
    \/ SyndicationFails
    \/ SyndicationReturns
    \/ ThirdPartyFails
    \/ ThirdPartyReturns
    \/ Select
    \/ Finish
    \/ MkdirFails
    \/ DestinationExists
    \/ UrlopenFails
    \/ Urlopen
    \/ ReadChunk
    \/ ReadFails
    \/ ReadEnd

Spec == Init /\ [][Next]_vars

(***************************************************************************)
(* twitter_media_downloader.py and twitter_scraper_downloader.py:          *)
(* extract_tweet_id                                                        *)
(***************************************************************************)
MediaDownloader == "TwitterMediaDownloader"
ScraperDownloader == "TwitterScraperDownloader"

\* url.replace('twitter.com', 'x.com'), token by token
ReplaceTwitterCom(u) ==
    [i \in 1..Len(u) |->
        CASE u[i] = "twitter.com" -> "x.com"
          [] u[i] = "mobile.twitter.com" -> "mobile.x.com"
          [] OTHER -> u[i]]

\* s.strip('/')
RECURSIVE StripSlashes(_)
StripSlashes(s) ==
    IF Len(s) > 0 /\ s[1] = "/" THEN StripSlashes(Tail(s))
    ELSE IF Len(s) > 0 /\ s[Len(s)] = "/" THEN StripSlashes(SubSeq(s, 1, Len(s) - 1))
    ELSE s

\* path_parts = parsed.path.strip('/').split('/'), and the test on it
LegacyPathParts(u) == Split(StripSlashes(urlparse(ReplaceTwitterCom(u)).path), "/")
SecondIsStatus(path_parts) == Len(path_parts) >= 3 /\ path_parts[2] = <<"status">>

\* TwitterScraperDownloader.extract_tweet_id
TwitterScraperDownloader_extract_tweet_id(u) ==
    LET path_parts == LegacyPathParts(u)
    IN  IF SecondIsStatus(path_parts) THEN Return(Str(path_parts[3]))
        ELSE Raise("ValueError", "Could not extract tweet ID from URL")

\* TwitterMediaDownloader.extract_tweet_id: the same, then the status query
\* parameter
TwitterMediaDownloader_extract_tweet_id(u) ==
    LET parsed == urlparse(ReplaceTwitterCom(u))
        path_parts == LegacyPathParts(u)
        status == QsFirst(parse_qs(parsed.query), <<"status">>)
    IN  IF SecondIsStatus(path_parts) THEN Return(Str(path_parts[3]))
        ELSE IF Len(parsed.query) > 0 /\ status # None THEN Return(status)
        ELSE Raise("ValueError", "Could not extract tweet ID from URL")

LegacyExtract(cls, u) ==
    IF cls = MediaDownloader THEN TwitterMediaDownloader_extract_tweet_id(u)
    ELSE TwitterScraperDownloader_extract_tweet_id(u)

\* the URLs of the URL parser, and URLs with a status query parameter
StatusQuery == <<"?", "status", "=", "9">>
LegacyUrls ==
    Urls \cup {MkUrl(h, ss, StatusQuery) : h \in Hosts, ss \in SegSeqs(MaxSegs - 1)}

NoLegacyRun ==
    /\ output = None /\ download_all = FALSE /\ include_m3u8 = FALSE /\ force = FALSE
    /\ rc = None /\ err = None /\ tweet_id = None /\ tpl = 0
    /\ requests = <<>> /\ replies = <<>> /\ data = None
    /\ targets = <<>> /\ idx = 0 /\ outputs = <<>> /\ dl = None
    /\ fs = {} /\ dirs = {} /\ fs0 = {} /\ dirs0 = {}
    /\ variants = <<>>

InitLegacyExtract ==
    /\ downloader \in {MediaDownloader, ScraperDownloader}
    /\ url \in LegacyUrls
    /\ NoLegacyRun
    /\ pc = "call"
    /\ ret = None

\* ret = self.extract_tweet_id(url)
CallLegacyExtract ==
    /\ pc = "call"
    /\ ret' = LegacyExtract(downloader, url)
    /\ pc' = "returned"
    /\ UNCHANGED <<args, rc, err, tweet_id, tpl, requests, replies, data, targets, idx,
                   outputs, dl, disk, variants>>

NextLegacyExtract == CallLegacyExtract

SpecLegacyExtract == InitLegacyExtract /\ [][NextLegacyExtract]_vars

(***************************************************************************)
(* twitter_media_downloader.py: _extract_media_from_entity                 *)
(***************************************************************************)
\* d.get(k, default)
GetOr(d, k, default) == IF Has(d, k) THEN Get(d, k) ELSE default

Reverse(s) == [i \in 1..Len(s) |-> s[Len(s) + 1 - i]]

\* a sort that forgot reverse=True
SortDescending_Ascending(pairs) == Sort(pairs)

\* list.sort(key=..., reverse=True): descending, equal keys in their
\* original order
SortDescending(pairs) == Reverse(Sort(Reverse(pairs)))

\* x.get('bitrate', 0)
BitrateOr0(v) == GetOr(v, "bitrate", PyInt(0)).n

\* [v for v in variants if v.get('content_type') == 'video/mp4']
Mp4Variants(media_entity) ==
    LET video_info == GetOr(media_entity, "video_info", Dict(<<>>, <<>>))
        vs == GetOr(video_info, "variants", List(<<>>)).items
    IN  SelectSeq(vs, LAMBDA v : Get(v, "content_type") = Mp4)

\* int(time.time()) of the moment the item is made
Epoch == 1700000000
ClockSpan == 1
ClockReadings == Epoch..(Epoch + ClockSpan)

\* f"twitter_<kind>_{int(time.time())}<ext>"
LegacyFilename(kind, now, ext) == <<"twitter_", kind, "_">> \o Decimal(now) \o <<ext>>

MediaInfo(u, type, filename) == [url |-> u, type |-> type, filename |-> filename]

\* _extract_media_from_entity, called when the clock reads now
extract_media_from_entity(media_entity, now) ==
    LET media_type == Get(media_entity, "type")
        mp4_variants == Mp4Variants(media_entity)
    IN  IF media_type = Str(<<"video">>)
        THEN IF Len(mp4_variants) = 0 THEN <<>>
             ELSE LET sorted == SortDescending(
                                    [i \in 1..Len(mp4_variants) |->
                                        <<BitrateOr0(mp4_variants[i]), mp4_variants[i]>>])
                  IN  <<MediaInfo(Get(sorted[1][2], "url").s, "video",
                                  LegacyFilename("video", now, ".mp4"))>>
        ELSE IF media_type = Str(<<"animated_gif">>)
        THEN IF Len(mp4_variants) = 0 THEN <<>>
             ELSE <<MediaInfo(Get(mp4_variants[1], "url").s, "gif",
                              LegacyFilename("gif", now, ".mp4"))>>
        ELSE IF media_type = Str(<<"photo">>)
        THEN LET media_url == GetOr(media_entity, "media_url_https", Str(<<>>))
             IN  IF ~Truthy(media_url) THEN <<>>
                 ELSE <<MediaInfo(media_url.s \o <<":orig">>, "photo",
                                  LegacyFilename("photo", now, ".jpg"))>>
        ELSE <<>>

\* the variants of a video_info: MP4 renditions with and without a bitrate,
\* and the HLS playlist
MaxEntityVariants == 3
EntityVariantPool ==
    {Dict(<<"bitrate", "content_type", "url">>, <<PyInt(b), Mp4, Str(MediaUrl(n, <<".mp4">>, <<>>))>>) :
        b \in {1, 2}, n \in {"a", "b"}} \cup
    {Dict(<<"content_type", "url">>, <<Mp4, Str(MediaUrl("c", <<".mp4">>, <<>>))>>),
     Dict(<<"content_type", "url">>,
          <<Str(<<"application/x-mpegURL">>), Str(MediaUrl("d", <<".m3u8">>, <<>>))>>)}

VideoEntity(type, vs) ==
    Dict(<<"type", "video_info">>, <<Str(<<type>>), Dict(<<"variants">>, <<List(vs)>>)>>)
PhotoEntity ==
    Dict(<<"type", "media_url_https">>,
         <<Str(<<"photo">>), Str(<<"https://", "pbs.twimg.com", "/", "media/", "p", ".jpg">>)>>)

Entities(n) ==
    {VideoEntity(type, vs) :
        type \in {"video", "animated_gif"},
        vs \in UNION {[1..m -> EntityVariantPool] : m \in 0..n}} \cup
    {PhotoEntity,
     Dict(<<"type">>, <<Str(<<"photo">>)>>),
     Dict(<<"type">>, <<Str(<<"video">>)>>),
     Dict(<<"type">>, <<Str(<<"poll">>)>>)}

InitEntity ==
    /\ downloader = MediaDownloader
    /\ data \in Entities(MaxEntityVariants)
    /\ url = <<>>
    /\ output = None /\ download_all = FALSE /\ include_m3u8 = FALSE /\ force = FALSE
    /\ rc = None /\ err = None /\ tweet_id = None /\ tpl = 0
    /\ requests = <<>> /\ replies = <<>>
    /\ targets = <<>> /\ idx = 0 /\ outputs = <<>> /\ dl = None
    /\ fs = {} /\ dirs = {} /\ fs0 = {} /\ dirs0 = {}
    /\ variants = <<>>
    /\ pc = "call"
    /\ ret = None

\* ret = self._extract_media_from_entity(data)
CallEntity ==
    /\ pc = "call"
    /\ \E now \in ClockReadings : ret' = List(extract_media_from_entity(data, now))
    /\ pc' = "returned"
    /\ UNCHANGED <<args, rc, err, tweet_id, tpl, requests, replies, data, targets, idx,
                   outputs, dl, disk, variants>>

NextEntity == CallEntity

SpecEntity == InitEntity /\ [][NextEntity]_vars

(***************************************************************************)
(* twitter_media_downloader.py: extract_media_urls                         *)
(***************************************************************************)
RECURSIVE Flatten(_)
Flatten(ss) == IF Len(ss) = 0 THEN <<>> ELSE Head(ss) \o Flatten(Tail(ss))

Conversation == "threaded_conversation_with_injections_v2"

\* legacy['extended_entities']['media'] of a tweet result that has them
ResultEntities(result) ==
    IF Has(result, "legacy") /\ Has(Get(result, "legacy"), "extended_entities")
    THEN Get(Get(Get(result, "legacy"), "extended_entities"), "media").items
    ELSE <<>>

\* the media entities of one entry: the tweet's own, then the quoted tweet's
EntryEntities(entry) ==
    IF Head(Get(entry, "entryId").s) # "tweet-" THEN <<>>
    ELSE LET tweet_result ==
                Get(Get(Get(Get(entry, "content"), "itemContent"), "tweet_results"), "result")
         IN  ResultEntities(tweet_result) \o
             (IF Has(tweet_result, "quoted_status_result")
              THEN ResultEntities(Get(Get(tweet_result, "quoted_status_result"), "result"))
              ELSE <<>>)

InstructionEntities(instruction) ==
    IF Get(instruction, "type") = Str(<<"TimelineAddEntries">>)
    THEN LET entries == GetOr(instruction, "entries", List(<<>>)).items
         IN  Flatten([i \in 1..Len(entries) |-> EntryEntities(entries[i])])
    ELSE <<>>

\* the media entities extract_media_urls visits, in the order it visits them
MediaEntities(tweet_data) ==
    IF tweet_data.t = "dict" /\ Has(tweet_data, "data")
        /\ Has(Get(tweet_data, "data"), Conversation)
    THEN LET instructions ==
                Get(Get(Get(tweet_data, "data"), Conversation), "instructions").items
         IN  Flatten([i \in 1..Len(instructions) |-> InstructionEntities(instructions[i])])
    ELSE <<>>

\* extract_media_urls; stamps[i] is the clock reading when entity i is handled
extract_media_urls(tweet_data, stamps) ==
    LET ents == MediaEntities(tweet_data)
    IN  Flatten([i \in 1..Len(ents) |-> extract_media_from_entity(ents[i], stamps[i])])

\* the clock never runs backwards
Stamps(n) == {s \in [1..n -> ClockReadings] : \A i, j \in 1..n : i < j => s[i] <= s[j]}

(***************************************************************************)
(* twitter_scraper_downloader.py: extract_media_urls_from_html             *)
(***************************************************************************)
\* the page as the attribute occurrences the patterns look at, in page order
Attr(attr, value) == [attr |-> attr, value |-> value]

\* urllib.parse.unquote, token by token
Unquote(u) == [i \in 1..Len(u) |-> IF u[i] = "https%3A%2F%2F" THEN "https://" ELSE u[i]]

\* decoded_url.startswith('http')
StartsWithHttp(u) == Len(u) > 0 /\ u[1] \in {"https://", "http://"}

\* re.findall of the patterns of one group, pattern after pattern
Matches(html_content, attrs, exts) ==
    Flatten([k \in 1..Len(attrs) |->
        SelectSeq(html_content, LAMBDA a : a.attr = attrs[k] /\ Contains(a.value, exts))])

\* 'pbs.twimg.com/media/' in decoded_url
IsPbsMedia(u) ==
    \E i \in 1..(Len(u) - 2) : u[i] = "pbs.twimg.com" /\ u[i+1] = "/" /\ u[i+2] = "media/"

\* the items appended by the three groups of patterns, before their file
\* names are made
ScrapedItems(html_content) ==
    LET video == Matches(html_content, <<"video_url", "playback_url", "content_url">>, {".mp4"})
        gif   == Matches(html_content, <<"href", "src">>, {".mp4"})
        image == Matches(html_content, <<"media_url_https", "href", "src">>,
                         {".jpg", ".jpeg", ".png", ".gif"})
        videoItems == [i \in 1..Len(video) |->
                          [url |-> Unquote(video[i].value), type |-> "video", ext |-> ".mp4"]]
        gifItems   == [i \in 1..Len(gif) |->
                          [url |-> Unquote(gif[i].value), type |-> "gif", ext |-> ".mp4"]]
        imageItems == [i \in 1..Len(image) |->
                          LET d == Unquote(image[i].value)
                          IN  [url |-> IF IsPbsMedia(d) /\ ~EndsWith(d, ":orig")
                                       THEN d \o <<":orig">> ELSE d,
                               type |-> "photo", ext |-> ".jpg"]]
    IN  SelectSeq(videoItems, LAMBDA m : StartsWithHttp(m.url)) \o
        SelectSeq(gifItems, LAMBDA m : StartsWithHttp(m.url)
                                        /\ Contains(m.url, {"video.twimg.com"})) \o
        SelectSeq(imageItems, LAMBDA m : StartsWithHttp(m.url))

\* remove duplicates while preserving order
RECURSIVE UniqueMedia(_, _)
UniqueMedia(media_urls, seen_urls) ==
    IF Len(media_urls) = 0 THEN <<>>
    ELSE IF Head(media_urls).url \in seen_urls
         THEN UniqueMedia(Tail(media_urls), seen_urls)
         ELSE <<Head(media_urls)>> \o
              UniqueMedia(Tail(media_urls), seen_urls \cup {Head(media_urls).url})

\* extract_media_urls_from_html; stamps[i] is the clock reading when item i
\* is appended
extract_media_urls_from_html(html_content, stamps) ==
    LET items == ScrapedItems(html_content)
    IN  UniqueMedia([i \in 1..Len(items) |->
                        MediaInfo(items[i].url, items[i].type,
                                  LegacyFilename(items[i].type, stamps[i], items[i].ext))],
                    {})

(***************************************************************************)
(* download_from_url of TwitterMediaDownloader and TwitterScraperDownloader *)
(***************************************************************************)
MaxMedia == 2

\* the URLs download_from_url is called with
LegacyMainUrls ==
    {MkUrl("x.com", <<<<"bob">>, <<"status">>, <<"1", "7">>>>, <<>>),
     MkUrl("twitter.com", <<<<"bob">>, <<"status">>, <<"1", "7">>>>, <<"?", "s", "=", "2", "0">>),
     MkUrl("x.com", <<<<"bob">>, <<"status">>, <<"1", "x">>>>, <<>>),
     MkUrl("x.com", <<<<"i">>, <<"web">>, <<"status">>, <<"1", "7">>>>, <<>>),
     MkUrl("x.com", <<<<"bob">>>>, StatusQuery),
     MkUrl("x.com", <<<<"bob">>, <<"status">>>>, <<>>),
     MkUrl("x.com", <<<<"bob">>>>, <<>>)}

\* output_dir: the default '.', or a directory that does not exist yet
OutputDirs == {OutPath(Cwd), OutPath(<<"out">>)}

EntityVariant(name, b) ==
    Dict(<<"bitrate", "content_type", "url">>,
         <<PyInt(b), Mp4, Str(MediaUrl(name, <<".mp4">>, <<>>))>>)

\* the media entities of a post: two videos, a GIF, a photo, a poll
RunEntityPool ==
    {VideoEntity("video", <<EntityVariant("b", 1), EntityVariant("a", 2)>>),
     VideoEntity("video", <<EntityVariant("c", 1)>>),
     VideoEntity("animated_gif", <<EntityVariant("g", 0)>>),
     PhotoEntity,
     Dict(<<"type">>, <<Str(<<"poll">>)>>)}

TweetResult(own, quoted) ==
    LET legacy(ents) ==
            Dict(<<"legacy">>,
                 <<IF Len(ents) = 0 THEN Dict(<<"full_text">>, <<Str(<<"hello">>)>>)
                   ELSE Dict(<<"extended_entities">>, <<Dict(<<"media">>, <<List(ents)>>)>>)>>)
    IN  IF Len(quoted) = 0 THEN legacy(own)
        ELSE Dict(<<"legacy", "quoted_status_result">>,
                  <<Get(legacy(own), "legacy"), Dict(<<"result">>, <<legacy(quoted)>>)>>)

Entry(prefix, result) ==
    Dict(<<"entryId", "content">>,
         <<Str(<<prefix, "1", "7">>),
           Dict(<<"itemContent">>, <<Dict(<<"tweet_results">>, <<Dict(<<"result">>, <<result>>)>>)>>)>>)

\* the GraphQL answer for a post with these media entities
TweetData(own, quoted) ==
    Dict(<<"data">>,
         <<Dict(<<Conversation>>,
                <<Dict(<<"instructions">>,
                       <<List(<<Dict(<<"type">>, <<Str(<<"TimelineClearCache">>)>>),
                                Dict(<<"type", "entries">>,
                                     <<Str(<<"TimelineAddEntries">>),
                                       List(<<Entry("tweet-", TweetResult(own, quoted)),
                                              Entry("cursor-", TweetResult(<<>>, <<>>))>>)>>)>>)>>)>>)>>)

\* what response.json() can be
TweetPayloads ==
    {TweetData(own, <<>>) : own \in UNION {[1..m -> RunEntityPool] : m \in 0..MaxMedia}} \cup
    {TweetData(<<e>>, <<e>>) : e \in RunEntityPool} \cup
    {Dict(<<>>, <<>>), Dict(<<"errors">>, <<List(<<Str(<<"NotFound">>)>>)>>)}

\* the attributes a page can hold
AttrPool ==
    {Attr("video_url", MediaUrl("a", <<".mp4">>, <<>>)),
     Attr("playback_url", MediaUrl("b", <<".mp4">>, <<>>)),
     Attr("video_url", <<"https%3A%2F%2F", "video.twimg.com", "/", "c", ".mp4">>),
     Attr("src", MediaUrl("a", <<".mp4">>, <<>>)),
     Attr("src", <<"https://", "pbs.twimg.com", "/", "media/", "p", ".jpg">>),
     Attr("href", <<"/", "local", ".mp4">>)}

\* what response.text can be
Pages == UNION {[1..m -> AttrPool] : m \in 0..MaxMedia}

InitLegacy ==
    /\ downloader \in {MediaDownloader, ScraperDownloader}
    /\ url \in LegacyMainUrls
    /\ output \in OutputDirs
    /\ download_all = FALSE /\ include_m3u8 = FALSE /\ force = FALSE
    /\ fs = {} /\ dirs = {Cwd} /\ fs0 = {} /\ dirs0 = {Cwd}
    /\ pc = "download_from_url"
    /\ rc = None /\ err = None /\ tweet_id = None /\ tpl = 0
    /\ requests = <<>> /\ replies = <<>> /\ data = None
    /\ variants = <<>> /\ targets = <<>> /\ idx = 0 /\ outputs = <<>> /\ dl = None
    /\ ret = None

\* print(msg); return []
ReturnEmpty(prefix, exc, msg) ==
    /\ err' = Report(prefix, exc, msg)
    /\ ret' = List(<<>>)
    /\ pc' = "returned"

\* download_from_url up to the first request: the directory is made, the ID
\* is extracted
DownloadFromUrl ==
    /\ pc = "download_from_url"
    /\ dirs' = dirs \cup Ancestors(output.p)
    /\ LET r == LegacyExtract(downloader, url)
       IN  IF r.t = "raise"
           THEN ReturnEmpty("Error", r.exc, r.msg) /\ UNCHANGED tweet_id
           ELSE /\ tweet_id' = r.v
                /\ pc' = IF downloader = MediaDownloader THEN "get_guest_token"
                          ELSE "get_page_content"
                /\ UNCHANGED <<err, ret>>
    /\ UNCHANGED <<args, rc, tpl, requests, replies, data, variants, targets, idx, outputs,
                   dl, fs, fs0, dirs0>>

\* get_guest_token: the POST answers with a token or not, or raises
GetGuestToken ==
    /\ pc = "get_guest_token"
    /\ requests' = Append(requests, [post |-> "api.twitter.com/1.1/guest/activate.json"])
    /\ \E token \in {None, Str(<<"token">>)} : replies' = Append(replies, Json(token))
    /\ pc' = "get_tweet_data"
    /\ UNCHANGED <<args, rc, err, tweet_id, tpl, data, variants, targets, idx, outputs, dl,
                   disk, ret>>

\* what download_from_url does with the media list
AfterExtraction(media_urls) ==
    IF Len(media_urls) = 0
    THEN ReturnEmpty("print", "", "No media found in tweet") /\ UNCHANGED targets
    ELSE targets' = media_urls /\ pc' = "download_media" /\ UNCHANGED <<err, ret>>

\* get_tweet_data, then extract_media_urls
GetTweetData ==
    /\ pc = "get_tweet_data"
    /\ requests' = Append(requests, [api |-> "TweetResultByRestId", tweetId |-> tweet_id.s])
    /\ \E tweet_data \in TweetPayloads \cup {None} :
        /\ replies' = Append(replies, IF tweet_data = None THEN Failed ELSE Json(tweet_data))
        /\ data' = tweet_data
        /\ IF ~Truthy(tweet_data)
           THEN ReturnEmpty("print", "", "Could not fetch tweet data") /\ UNCHANGED targets
           ELSE \E stamps \in Stamps(Len(MediaEntities(tweet_data))) :
                    AfterExtraction(extract_media_urls(tweet_data, stamps))
    /\ UNCHANGED <<args, rc, tweet_id, tpl, variants, idx, outputs, dl, disk>>

\* get_page_content, then extract_media_urls_from_html
GetPageContent ==
    /\ pc = "get_page_content"
    /\ requests' = Append(requests, [page |-> url])
    /\ \E html_content \in {List(page) : page \in Pages} \cup {None} :
        /\ replies' = Append(replies, IF html_content = None THEN Failed
                                       ELSE Json(html_content))
        /\ data' = html_content
        /\ IF ~Truthy(html_content)
           THEN ReturnEmpty("print", "", "Could not fetch tweet page") /\ UNCHANGED targets
           ELSE \E stamps \in Stamps(Len(ScrapedItems(html_content.items))) :
                    AfterExtraction(extract_media_urls_from_html(html_content.items, stamps))
    /\ UNCHANGED <<args, rc, tweet_id, tpl, variants, idx, outputs, dl, disk>>

\* filepath = os.path.join(output_dir, filename)
Filepath(media_info) == PathJoin(output.p, media_info.filename)

\* download_media: session.get or raise_for_status raises; None is returned
DownloadMediaFails ==
    /\ pc = "download_media" /\ idx < Len(targets)
    /\ requests' = Append(requests, MediaRequest(Target.url))
    /\ err' = Report("print", "", "Error downloading media")
    /\ idx' = idx + 1
    /\ UNCHANGED <<args, pc, rc, tweet_id, tpl, replies, data, variants, targets, outputs,
                   dl, disk, ret>>

\* download_media: the response is there and open(filepath, 'wb') truncates
DownloadMediaOpens ==
    /\ pc = "download_media" /\ idx < Len(targets)
    /\ requests' = Append(requests, MediaRequest(Target.url))
    /\ dl' = [url |-> Target.url, dest |-> Filepath(Target), downloaded |-> 0]
    /\ fs' = WriteFile(fs, Filepath(Target), [from |-> Target.url, chunks |-> 0])
    /\ pc' = "write"
    /\ UNCHANGED <<args, rc, err, tweet_id, tpl, replies, data, variants, targets, idx,
                   outputs, dirs, fs0, dirs0, ret>>

\* for chunk in response.iter_content(...): f.write(chunk)
DownloadMediaWrites ==
    /\ pc = "write" /\ dl.downloaded < BodyChunks
    /\ dl' = [dl EXCEPT !.downloaded = @ + 1]
    /\ fs' = WriteFile(fs, dl.dest, [from |-> dl.url, chunks |-> dl.downloaded + 1])
    /\ UNCHANGED <<args, pc, rc, err, tweet_id, tpl, requests, replies, data, variants,
                   targets, idx, outputs, dirs, fs0, dirs0, ret>>

\* iter_content raises midway: None is returned, what was written stays
DownloadMediaWriteFails ==
    /\ pc = "write" /\ dl.downloaded < BodyChunks
    /\ err' = Report("print", "", "Error downloading media")
    /\ idx' = idx + 1
    /\ dl' = None
    /\ pc' = "download_media"
    /\ UNCHANGED <<args, rc, tweet_id, tpl, requests, replies, data, variants, targets,
                   outputs, disk, ret>>

\* the body is complete: filepath is returned and appended
DownloadMediaDone ==
    /\ pc = "write" /\ dl.downloaded = BodyChunks
    /\ outputs' = Append(outputs, dl.dest)
    /\ idx' = idx + 1
    /\ dl' = None
    /\ pc' = "download_media"
    /\ UNCHANGED <<args, rc, err, tweet_id, tpl, requests, replies, data, variants,
                   targets, disk, ret>>

\* return downloaded_files
DownloadFromUrlReturns ==
    /\ pc = "download_media" /\ idx = Len(targets)
    /\ ret' = List(outputs)
    /\ pc' = "returned"
    /\ UNCHANGED <<args, rc, err, tweet_id, tpl, requests, replies, data, variants,
                   targets, idx, outputs, dl, disk>>

NextLegacy ==
    \/ DownloadFromUrl
    \/ GetGuestToken
    \/ GetTweetData
    \/ GetPageContent
    \/ DownloadMediaFails
    \/ DownloadMediaOpens
    \/ DownloadMediaWrites
    \/ DownloadMediaWriteFails
    \/ DownloadMediaDone
    \/ DownloadFromUrlReturns

SpecLegacy == InitLegacy /\ [][NextLegacy]_vars

(***************************************************************************)
(* Properties                                                              *)
(***************************************************************************)
AllDigitIds == {seg \in Segs : IsDigit(seg)}
\* a query string, a fragment, both, or nothing after the ID
QueryTails == UrlTails \ {<<"/">>}

\* the four URL shapes of the docstring of extract_tweet_id
UserStatusShape(u, user, id) ==
    \E h \in Hosts, tl \in QueryTails : u = MkUrl(h, <<user, <<"status">>, id>>, tl)
IWebStatusShape(u, id) ==
    \E tl \in QueryTails :
        u = MkUrl("x.com", <<<<"i">>, <<"web">>, <<"status">>, id>>, tl)

\* C1: for every all-digit ID and each of the four documented URL shapes,
\* with or without a query string or fragment, extract_tweet_id returns
\* exactly the ID.
C1_DocumentedShapesReturnId ==
    pc = "returned" =>
        \A id \in AllDigitIds :
            (IWebStatusShape(url, id) \/ \E user \in Segs : UserStatusShape(url, user, id))
                => ret = Return(Str(id))

\* C1, as far as the code goes: the same, for every user name that is not
\* itself the word status in some spelling.
C1_ShapesExceptUserNamedStatus ==
    pc = "returned" =>
        \A id \in AllDigitIds :
            (IWebStatusShape(url, id)
                \/ \E user \in Segs : ~IsStatus(user) /\ UserStatusShape(url, user, id))
                => ret = Return(Str(id))

C1_Reached ==
    pc = "returned" /\ ret.t = "return"
        /\ \E id \in AllDigitIds, user \in Segs : UserStatusShape(url, user, id)

\* the path segments of a URL, and its id query parameter
PathParts(u) == NonEmpty(Split(urlparse(u).path, "/"))
IdParam(u) == QsFirst(parse_qs(urlparse(u).query), <<"id">>)
\* a status segment that has a segment after it
StatusThenId(u) == \E i \in 1..(Len(PathParts(u)) - 1) : IsStatus(PathParts(u)[i])
\* the segment after the first such status segment
SegmentAfterStatus(u) ==
    LET parts == PathParts(u)
        i == CHOOSE k \in 1..(Len(parts) - 1) :
                IsStatus(parts[k]) /\ \A j \in 1..(k-1) : ~IsStatus(parts[j])
    IN  parts[i + 1]
Malformed(u) ==
    \/ ~StatusThenId(u) /\ IdParam(u) = None
    \/ StatusThenId(u) /\ ~IsDigit(SegmentAfterStatus(u))
    \/ ~StatusThenId(u) /\ IdParam(u) # None /\ ~IsDigit(IdParam(u).s)

\* C2: for a URL with no status segment followed by an ID and no id query
\* parameter, or whose ID is not all digits, main reports an error and
\* returns 2; no HTTP request is issued and no file or directory is created.
C2_MalformedUrlReturns2 ==
    (Malformed(url) /\ pc # "main") =>
        /\ pc = "exit" /\ rc = PyInt(2)
        /\ err # None /\ err.prefix = "Error"
        /\ requests = <<>>
        /\ fs = fs0 /\ dirs = dirs0

C2_Reached ==
    /\ pc = "exit" /\ rc = PyInt(2)
    /\ StatusThenId(url) /\ ~IsDigit(SegmentAfterStatus(url))

\* the integer a bitrate field stands for: an integer, or a string of digits,
\* by its value; anything else, or no field, 0
FieldInt(v, k) ==
    LET x == Get(v, k)
    IN  IF x.t = "int" THEN x.n
        ELSE IF x.t = "str" /\ IsDigit(x.s) THEN DecimalValue(x.s)
        ELSE 0
\* field bitrate, or bit_rate when bitrate is missing or zero
StatedBitrate(v) ==
    IF Truthy(Get(v, "bitrate")) THEN FieldInt(v, "bitrate") ELSE FieldInt(v, "bit_rate")

\* C3: pick_best_variant returns None for an empty list; otherwise a variant
\* of the list whose bitrate no variant exceeds, and of the variants with
\* that maximal bitrate the one that comes last.
C3_PickBestIsLastMaximum ==
    pc = "returned" =>
        IF Len(variants) = 0 THEN ret = None
        ELSE \E i \in 1..Len(variants) :
                /\ ret = variants[i]
                /\ \A j \in 1..Len(variants) :
                        StatedBitrate(variants[j]) <= StatedBitrate(variants[i])
                /\ \A j \in (i+1)..Len(variants) :
                        StatedBitrate(variants[j]) < StatedBitrate(variants[i])

\* a list of three where the maximum is shared and the last of them is not
\* the last of the list
C3_Reached ==
    /\ pc = "returned" /\ Len(variants) = 3
    /\ StatedBitrate(variants[1]) = StatedBitrate(variants[2])
    /\ StatedBitrate(variants[3]) < StatedBitrate(variants[2])
    /\ variants[1] # variants[2]
    /\ ret = variants[2]

\* the variants that survive gather_variants and filter_variants
Survivors == filter_variants(gather_variants(data), include_m3u8)
\* the media URLs requested so far, in order
MediaRequests ==
    LET m == SelectSeq(requests, LAMBDA r : "get" \in DOMAIN r)
    IN  [k \in 1..Len(m) |-> m[k].get]
\* position of a variant in a list without repetitions
PosIn(vs, v) == CHOOSE i \in 1..Len(vs) : vs[i] = v

\* C4: with --all the targets are the surviving variants, each once, in
\* non-decreasing bitrate, equal bitrates in discovery order, and the
\* downloads are attempted in that order.
C4_AllTargetsStableAscending ==
    (download_all /\ Len(targets) > 0) =>
        LET S == Survivors.v
        IN  /\ Len(targets) = Len(S)
            /\ \A i \in 1..Len(S) :
                    Cardinality({j \in 1..Len(targets) : targets[j] = S[i]}) = 1
            /\ \A i, j \in 1..Len(targets) :
                    i < j =>
                        /\ StatedBitrate(targets[i]) <= StatedBitrate(targets[j])
                        /\ StatedBitrate(targets[i]) = StatedBitrate(targets[j])
                                => PosIn(S, targets[i]) < PosIn(S, targets[j])
            /\ Len(MediaRequests) <= Len(targets)
            /\ Len(MediaRequests) \in {idx, idx + 1}
            /\ \A k \in 1..Len(MediaRequests) : MediaRequests[k] = SrcOf(targets[k]).s

\* every target of a reordered list of three was downloaded, two of them
\* with the same bitrate
C4_Reached ==
    /\ download_all /\ pc = "exit" /\ rc = PyInt(0)
    /\ Len(targets) = 3 /\ Len(MediaRequests) = 3
    /\ targets # Survivors.v
    /\ StatedBitrate(targets[2]) = StatedBitrate(targets[3])

\* the complete body of a media URL
Full(src) == [from |-> src, chunks |-> BodyChunks]

\* C5: when the destination file exists and force is off, the download of
\* that target fails with a DownloadError, the file is unchanged, no request
\* for the media URL is issued and no .part file is made; when force is on
\* and the transfer succeeds, the destination holds the downloaded content.
C5_ExistingDestination ==
    /\ [][(pc = "loop" /\ idx < Len(targets) /\ ~force
              /\ IsFile(fs, OutPathOf(Target, idx)))
            => /\ pc' = "exit" /\ rc' = PyInt(1)
               /\ err'.exc = "DownloadError" /\ err'.msg = "Destination file exists"
               /\ fs' = fs
               /\ requests' = requests]_vars
    /\ [][(pc = "read" /\ pc' = "loop" /\ force /\ IsFile(fs, dl.dest))
            => FileAt(fs', dl.dest).content = Full(dl.url)]_vars

\* refused: the earlier file is still there and nothing was requested
C5_Reached ==
    /\ pc = "exit" /\ ~force /\ err # None /\ err.msg = "Destination file exists"
    /\ MediaRequests = <<>> /\ fs = fs0 /\ fs0 # {}

\* overwritten: a file of the earlier run now holds the downloaded content
C5_ReachedForce ==
    /\ pc = "exit" /\ force /\ rc = PyInt(0)
    /\ \E f \in fs0 : \E k \in 1..Len(outputs) :
            outputs[k] = f.path /\ FileAt(fs, f.path).content.from # <<"old">>

\* the metadata endpoints in their fixed order
Endpoints == SYNDICATION_URLS \o THIRD_PARTY_APIS
MetadataRequests ==
    LET m == SelectSeq(requests, LAMBDA r : "to" \in DOMAIN r)
    IN  [k \in 1..Len(m) |-> m[k].to]
Fetching == pc \in {"main", "syndication", "third_party"}

\* C6: the endpoints are requested in the fixed order; one is requested only
\* if every earlier one failed to fetch or to parse; once one returns
\* parseable JSON no later one is requested and its payload is the one the
\* media extraction uses.
C6_FixedOrderFirstParseableWins ==
    /\ Len(MetadataRequests) <= Len(Endpoints)
    /\ \A k \in 1..Len(MetadataRequests) :
            /\ MetadataRequests[k] = Endpoints[k]
            /\ \A j \in 1..(k-1) : ~replies[j].ok
            /\ replies[k].ok =>
                    /\ k = Len(replies)
                    /\ ~Fetching
                    /\ data = replies[k].v \/ data = Unwrap(replies[k].v)

CouldNotFetch == "Could not fetch tweet metadata from public endpoints."
AllEndpointsFailed ==
    /\ MetadataRequests = Endpoints
    /\ \A k \in 1..Len(replies) : ~replies[k].ok

\* C7: the DownloadError "Could not fetch tweet metadata from public
\* endpoints." is raised if and only if all five endpoints were requested
\* and every one of them failed to fetch or to parse.
C7_CouldNotFetchIffAllFailed ==
    (err # None /\ err.msg = CouldNotFetch) <=> (AllEndpointsFailed /\ ~Fetching)

Ended == pc \in {"exit", "uncaught"}
UrlValid == extract_tweet_id(url).t = "return"
AllDownloaded ==
    /\ Len(targets) > 0
    /\ Len(outputs) = Len(targets)

\* C8: main returns 0 exactly when the URL is valid, metadata was fetched,
\* at least one target was selected and every targeted download completed;
\* 1 on every failure of metadata fetch, media selection or download; 2 when
\* the URL is invalid.
C8_ReturnCodes ==
    Ended =>
        /\ rc \in {PyInt(0), PyInt(1), PyInt(2)}
        /\ rc = PyInt(2) <=> ~UrlValid
        /\ rc = PyInt(0) <=> (UrlValid /\ AllDownloaded)
        /\ rc = PyInt(1) <=> (UrlValid /\ ~AllDownloaded)

HasPhotos(d) == d.t = "dict" /\ Truthy(Get(d, "photos"))

\* C9: when the fetched payload yields no variant after gather_variants and
\* filter_variants, a DownloadError is raised and no download is attempted;
\* the message is the photos-only one when the payload has a non-empty
\* top-level photos field and the generic one otherwise.
C9_NoVariantMessages ==
    (~Fetching /\ pc # "select" /\ data # None
        /\ Survivors.t = "return" /\ Len(Survivors.v) = 0) =>
            /\ pc = "exit" /\ rc = PyInt(1)
            /\ err.exc = "DownloadError"
            /\ err.msg = IF HasPhotos(data) THEN NoVideoPhotos ELSE NoVariants
            /\ MediaRequests = <<>>

\* C10: with no -o, the file is named <id>.mp4 in the current directory.
C10_DefaultNameIsIdMp4 ==
    (output = None /\ dl # None) => dl.dest = tweet_id.s \o <<".mp4">>

\* the download in progress goes to a file inside the -o path, named after
\* the post ID
InsideOutput ==
    /\ PathParent(dl.dest) = output.p
    /\ Len(PathName(dl.dest)) > Len(tweet_id.s)
    /\ SubSeq(PathName(dl.dest), 1, Len(tweet_id.s)) = tweet_id.s

\* C11: with -o, the file is placed inside that path when it is an existing
\* directory, suffix or not; otherwise a path with a file suffix is used
\* verbatim, whatever the ID, bitrate, index and extension; otherwise the
\* path is taken as a directory to create and the file is placed inside it.
C11_OutputDirectoryFileOrNewDirectory ==
    (output # None /\ dl # None) =>
        IF output.p \in dirs0 THEN InsideOutput
        ELSE IF Len(PathSuffix(output.p)) > 0 THEN dl.dest = output.p
        ELSE InsideOutput /\ output.p \in dirs

\* the second target of a run goes to the very path -o names
C11_Reached ==
    /\ output # None /\ dl # None /\ idx = 1
    /\ output.p \notin dirs0 /\ dl.dest = output.p

\* a file inside an existing directory whose name has a suffix
C11_ReachedDirectoryWithSuffix ==
    /\ output # None /\ dl # None
    /\ output.p \in dirs0 /\ Len(PathSuffix(output.p)) > 0 /\ InsideOutput

\* the download of target k = idx + 1 of several failed
FailedAtTarget == Ended /\ Len(targets) > 1 /\ idx < Len(targets)

\* C14: with several targets, when the download of the k-th fails the run
\* ends with a DownloadError and main returns 1, no later target is
\* requested, and every file completed for targets 1..k-1 is on disk with
\* its full content.
C14_FailureKeepsCompletedFiles ==
    FailedAtTarget =>
        /\ pc = "exit" /\ rc = PyInt(1) /\ err.exc = "DownloadError"
        /\ Len(MediaRequests) <= idx + 1
        /\ Len(outputs) = idx
        /\ \A j \in 1..idx :
                /\ IsFile(fs, outputs[j])
                /\ FileAt(fs, outputs[j]).content = Full(SrcOf(targets[j]).s)

\* a content that is whole: what an earlier run left, or a complete body
Complete(c) == c = Old \/ c.chunks = BodyChunks

\* C16: throughout stream_download and after it, interrupted or failed or
\* not, forced over an existing file or not, the destination is absent, or
\* holds what it held before the call, or holds the complete download;
\* partly written data exists only under the .part name.
C16_DestinationNeverPartial ==
    /\ [][\A f \in fs' :
            ~EndsWith(f.path, ".part") =>
                \/ f \in fs
                \/ dl # None /\ f.path = dl.dest /\ f.content = Full(dl.url)]_vars
    /\ [][\A f \in fs : ~EndsWith(f.path, ".part") => IsFile(fs', f.path)]_vars
    /\ [][\A f \in fs' : ~Complete(f.content) => EndsWith(f.path, ".part")]_vars

\* a forced download over an existing file failed midway: the file still
\* holds what it held, the partial data is in the .part file
C16_Reached ==
    /\ pc = "exit" /\ rc = PyInt(1) /\ force /\ dl # None
    /\ IsFile(fs, dl.dest) /\ FileAt(fs, dl.dest).content = Old
    /\ IsFile(fs, dl.tmp) /\ ~Complete(FileAt(fs, dl.tmp).content)

\* the paths of the downloads completed so far
Written == {outputs[k] : k \in 1..Len(outputs)}

\* C17: with --all, different targets get different output paths, whatever
\* -o is and whatever the bitrates are: no download is refused because of a
\* file written for an earlier target of the run, and none overwrites one.
C17_AllTargetsDistinctPaths ==
    download_all =>
        /\ \A i, j \in 1..Len(outputs) : outputs[i] = outputs[j] => i = j
        /\ dl # None => dl.dest \notin Written
        /\ (pc = "exit" /\ err # None /\ err.msg = "Destination file exists")
                => OutPathOf(Target, idx) \notin Written

\* C18: main always ends by returning 0, 1 or 2; a failure inside
\* download_from_tweet_url, for every parseable payload and every outcome of
\* the file system, is a DownloadError that main reports as "Download
\* failed", never an uncaught exception.
C18_MainAlwaysReturns ==
    /\ pc # "uncaught"
    /\ pc = "exit" =>
            /\ rc \in {PyInt(0), PyInt(1), PyInt(2)}
            /\ rc = PyInt(1) => err.prefix = "Download failed" /\ err.exc = "DownloadError"

\* a path of the shape /<user>/status/<id>, or /i/web/status/<id>
UserStatusPath(u, id) ==
    \E user \in Segs : PathParts(u) = <<user, <<"status">>, id>>
IWebStatusPath(u, id) == PathParts(u) = <<<<"i">>, <<"web">>, <<"status">>, id>>

\* C13: TwitterMediaDownloader.extract_tweet_id and
\* TwitterScraperDownloader.extract_tweet_id return the ID for every URL
\* whose path is /<user>/status/<id> and for every URL whose path is
\* /i/web/status/<id>.
C13_LegacyExtractBothShapes ==
    pc = "returned" =>
        \A id \in Segs :
            (UserStatusPath(url, id) \/ IWebStatusPath(url, id)) => ret = Return(Str(id))

\* the MP4 variants of the entity the call was given, and a variant's bitrate
EntityMp4 ==
    LET vs == Get(Get(data, "video_info"), "variants").items
    IN  SelectSeq(vs, LAMBDA v : Get(v, "content_type") = Str(<<"video/mp4">>))
EntityBitrate(v) == IF Has(v, "bitrate") THEN Get(v, "bitrate").n ELSE 0
VideoOrGif(types) ==
    /\ pc = "returned" /\ Get(data, "type") \in {Str(<<ty>>) : ty \in types}
    /\ Has(data, "video_info") /\ Len(EntityMp4) > 0
\* one URL is returned, that of an MP4 variant of maximal bitrate
ReturnsMaximalMp4 ==
    /\ Len(ret.items) = 1
    /\ \E i \in 1..Len(EntityMp4) :
            /\ ret.items[1].url = Get(EntityMp4[i], "url").s
            /\ \A j \in 1..Len(EntityMp4) :
                    EntityBitrate(EntityMp4[j]) <= EntityBitrate(EntityMp4[i])

NoStatusSegment(u) == \A i \in 1..Len(PathParts(u)) : PathParts(u)[i] # <<"status">>
IdNotAllDigits(u) ==
    \E i \in 1..(Len(PathParts(u)) - 1) :
        PathParts(u)[i] = <<"status">> /\ ~IsDigit(PathParts(u)[i + 1])

\* C12: in download_from_url of both classes, for every URL whose ID
\* segment is not all digits or that has no status segment, the extraction
\* fails with a reported error, the call returns an empty list, and no
\* network request is made.
C12_LegacyMalformedUrlNoRequest ==
    ((NoStatusSegment(url) \/ IdNotAllDigits(url)) /\ pc # "download_from_url") =>
        /\ pc = "returned" /\ ret = List(<<>>)
        /\ err # None /\ err.prefix = "Error"
        /\ requests = <<>>

\* every one of the n media items was downloaded
AllItemsDownloaded ==
    /\ pc = "returned" /\ Len(targets) > 0
    /\ Len(MediaRequests) = Len(targets) /\ Len(outputs) = Len(targets)

\* C19: when a post yields n media items and all n downloads succeed, the
\* returned list holds n pairwise distinct file paths and no download
\* overwrote a file written earlier in the call, whatever the clock read
\* when the file names were made.
C19_LegacyDistinctPaths ==
    AllItemsDownloaded =>
        /\ Len(ret.items) = Len(targets)
        /\ \A i, j \in 1..Len(ret.items) : ret.items[i] = ret.items[j] => i = j
        /\ \A i \in 1..Len(targets) :
                /\ IsFile(fs, ret.items[i])
                /\ FileAt(fs, ret.items[i]).content = Full(targets[i].url)

====
